---- MODULE Spec2Model ----
(***************************************************************************)
(* A model of EbayWixSyncService (src/src/ebay-wix-sync/                   *)
(* ebay-wix-sync.service.ts): the scheduled eBay -> Wix synchronisation.   *)
(*                                                                         *)
(* One action is one resumption of the JavaScript event loop: the code     *)
(* that runs between two awaits.  Remote calls (search, detail, token,     *)
(* create-product, attach-media) are in flight between the action that     *)
(* sends them and the action that receives their outcome.                  *)
(*                                                                         *)
(* Time is kept relative: sinceLast is Date.now() - lastApiCall, cut at    *)
(* API_DELAY (the code only compares it with API_DELAY), and a sleeping    *)
(* run holds the time left on its timer.                                   *)
(***************************************************************************)
EXTENDS Integers, Sequences, FiniteSets, TLC

(***************************************************************************)
(* Strings.  URLs are strings; Len, SubSeq and \o act on them.             *)
(***************************************************************************)

Range(s) == {s[i] : i \in 1..Len(s)}

Min(a, b) == IF a < b THEN a ELSE b

Max(a, b) == IF a > b THEN a ELSE b

\* s has pat at position i
StartsAt(s, pat, i) == /\ i >= 1
                       /\ i + Len(pat) - 1 <= Len(s)
                       /\ SubSeq(s, i, i + Len(pat) - 1) = pat

\* the position of the leftmost occurrence of pat in s, 0 when there is none
IndexOf(s, pat) ==
  LET hits == {i \in 1..Len(s) : StartsAt(s, pat, i)}
  IN  IF hits = {} THEN 0 ELSE CHOOSE i \in hits : \A j \in hits : i <= j

\* String.prototype.replace(pattern, rep) with a pattern without the g flag:
\* only the leftmost match is replaced
ReplaceFirst(s, pat, rep) ==
  LET i == IndexOf(s, pat)
  IN  IF i = 0 THEN s
      ELSE SubSeq(s, 1, i - 1) \o rep \o SubSeq(s, i + Len(pat), Len(s))

IsDigit(c) == c \in {"0", "1", "2", "3", "4", "5", "6", "7", "8", "9"}

\* the number of digits of s from position k on (the greedy \d+)
DigitRun(s, k) ==
  LET ends == {n \in 0..(Len(s) - k + 1) :
                 /\ \A j \in k..(k + n - 1) : IsDigit(SubSeq(s, j, j))
                 /\ (k + n > Len(s) \/ ~IsDigit(SubSeq(s, k + n, k + n)))}
  IN  IF k > Len(s) THEN 0 ELSE CHOOSE n \in ends : TRUE

\* /\/s-l\d+\./ matches at position i
SizeMatchAt(s, i) ==
  /\ StartsAt(s, "/s-l", i)
  /\ DigitRun(s, i + 4) >= 1
  /\ StartsAt(s, ".", i + 4 + DigitRun(s, i + 4))

\* .replace(/\/s-l\d+\./, '/s-l1600.')
ReplaceSize(s) ==
  LET hits == {i \in 1..Len(s) : SizeMatchAt(s, i)}
      i    == CHOOSE h \in hits : \A j \in hits : h <= j
  IN  IF hits = {} THEN s
      ELSE SubSeq(s, 1, i - 1) \o "/s-l1600."
             \o SubSeq(s, i + 4 + DigitRun(s, i + 4) + 1, Len(s))

(***************************************************************************)
(* Values of a URL field.  The listings are untyped (any): a URL field is  *)
(* a string, a falsy value (undefined, null, ''), here the empty string,   *)
(* or a truthy value that is no string, here NonString, which has no       *)
(* replace method.                                                         *)
(***************************************************************************)

NonString == "[object Object]"

Falsy(url) == url = ""

\* convertToHighRes raises a TypeError: url.replace is not a function
ConvertThrows(url) == url = NonString

convertToHighRes(url) ==
  IF Falsy(url) THEN url
  ELSE ReplaceFirst(ReplaceSize(ReplaceFirst(url, "/thumbs/", "/")), "-thumb.", ".")

\* Set.prototype.add on a set kept in insertion order
SetAdd(images, url) == IF url \in Range(images) THEN images ELSE Append(images, url)

RECURSIVE AddAll(_, _)
\* urls.forEach((url) => { if (url) images.add(this.convertToHighRes(url)) })
AddAll(images, urls) ==
  IF urls = <<>> THEN images
  ELSE AddAll(IF Falsy(Head(urls)) THEN images
              ELSE SetAdd(images, convertToHighRes(Head(urls))),
              Tail(urls))

\* some truthy entry of urls is no string
AnyThrows(urls) == \E i \in 1..Len(urls) : ConvertThrows(urls[i])

\* extractBasicImages raises
ExtractBasicThrows(listing) ==
  \/ ConvertThrows(listing.galleryURL)
  \/ AnyThrows(listing.pictureURL)

extractBasicImages(listing) ==
  AddAll(IF Falsy(listing.galleryURL) THEN <<>>
         ELSE <<convertToHighRes(listing.galleryURL)>>,
         listing.pictureURL)

\* the first element of an array, undefined (falsy) when the array is empty
First(arr) == IF arr = <<>> THEN "" ELSE arr[1]

RECURSIVE AddPictureSets(_, _)
\* item.Variations.Pictures.forEach((picSet) => ...)
AddPictureSets(images, sets) ==
  IF sets = <<>> THEN images
  ELSE AddPictureSets(AddAll(images, Head(sets)), Tail(sets))

\* An item of the detail response: PictureURL, GalleryURL (an array of at most
\* one URL), PictureDetails (hasPD, with its GalleryURL array, hasPDGallery, and
\* its PictureURL) and the picture sets of Variations.
extractAllImages(item) ==
  LET a == AddAll(<<>>, item.PictureURL)
      b == IF ~Falsy(First(item.GalleryURL))
           THEN SetAdd(a, convertToHighRes(First(item.GalleryURL))) ELSE a
      c == IF item.hasPD /\ item.hasPDGallery
           THEN SetAdd(b, convertToHighRes(First(item.PDGalleryURL))) ELSE b
      d == IF item.hasPD THEN AddAll(c, item.PDPictureURL) ELSE c
  IN  AddPictureSets(d, item.Variations)

\* .filter((url) => !!url)
FilterTruthy(urls) == SelectSeq(urls, LAMBDA u : ~Falsy(u))

\* the array is spread again without passing through a Set
UniqueNone(urls) == urls

RECURSIVE Unique(_)
\* [...new Set(urls)]
Unique(urls) ==
  IF urls = <<>> THEN <<>>
  ELSE LET init == Unique(SubSeq(urls, 1, Len(urls) - 1))
       IN  SetAdd(init, urls[Len(urls)])

\* .map((url) => this.convertToHighRes(url))
MapHighRes(urls) == [i \in 1..Len(urls) |-> convertToHighRes(urls[i])]

\* combinedImages then uniqueImages of getDetailedListings
MergeImages(basicImages, detailImages) ==
  MapHighRes(Unique(FilterTruthy(basicImages \o detailImages)))

(***************************************************************************)
(* Bounds of the model and the constants of the service.                   *)
(***************************************************************************)

\* BATCH_SIZE is 10 and MAX_PAGES is 1 in the source; the paging and batching
\* code is generic in both, and is checked here for these smaller values.
PageSizeBound == 2

PageCapBound == 3

BATCH_SIZE == PageSizeBound

MAX_PAGES == PageCapBound

API_DELAY == 100

\* the clock advances in steps of TimeStep milliseconds
TimeStep == 50

\* the detail requests and the refreshes before a retry are counted, for one
\* listing, up to MaxDetailReq (the retry of getShoppingApiDetails is a
\* recursive call and has no bound of its own)
MaxDetailReq == 3

\* un-awaited token refreshes in flight at one time
MaxFloating == 1


Runs == {1, 2}

ProductIds == {"p1", "p2"}

(***************************************************************************)
(* The seller's store.  A listing is a summary of the search API together  *)
(* with the item the detail API holds for it.                              *)
(***************************************************************************)

EmptyItem == [PictureURL |-> <<>>, GalleryURL |-> <<>>, hasPD |-> FALSE,
              hasPDGallery |-> FALSE, PDGalleryURL |-> <<>>,
              PDPictureURL |-> <<>>, Variations |-> <<>>]

Catalog(kind) ==
  CASE kind = "plain" ->
         [itemId |-> TRUE, galleryURL |-> "/thumbs/a-thumb.jpg",
          pictureURL |-> <<"/i/s-l64.jpg">>,
          item |-> [PictureURL |-> <<"/i/s-l64.jpg", "/i/b.jpg">>,
                    GalleryURL |-> <<"/thumbs/a-thumb.jpg">>,
                    hasPD |-> TRUE, hasPDGallery |-> TRUE,
                    PDGalleryURL |-> <<>>, PDPictureURL |-> <<"">>,
                    Variations |-> << <<"/v/s-l300.png">> >>]]
    [] kind = "dup" ->
         [itemId |-> TRUE, galleryURL |-> "/thumbs/thumbs/a.jpg",
          pictureURL |-> <<"/thumbs/a.jpg">>,
          item |-> [EmptyItem EXCEPT !.PictureURL = <<"/a.jpg">>]]
    [] kind = "noid" ->
         [itemId |-> FALSE, galleryURL |-> "/g.jpg", pictureURL |-> <<>>,
          item |-> EmptyItem]
    [] kind = "noimg" ->
         [itemId |-> TRUE, galleryURL |-> "", pictureURL |-> <<>>,
          item |-> [EmptyItem EXCEPT !.hasPD = TRUE, !.hasPDGallery = TRUE]]
    [] kind = "bad" ->
         [itemId |-> TRUE, galleryURL |-> NonString, pictureURL |-> <<>>,
          item |-> EmptyItem]

\* the stores for which a second run is started while another is suspended
OverlapStores == { <<>> }

Stores == { <<>>,
            <<"plain">>,
            <<"noimg", "noid">>,
            <<"dup", "plain", "noid">>,
            <<"plain", "bad", "plain">>,
            <<"noimg", "plain">>,
            <<"noid", "plain", "noid", "noid", "noimg">> }

VARIABLES
  store,             \* the listings of the store, by kind
  run,               \* the invocations of syncEbayListingsWithWix
  applicationToken,  \* this.applicationToken: 0 is undefined
  auth,              \* initEbayAuth: "pending", "ready" (timer set) or "failed"
  floating,          \* un-awaited refreshApplicationToken calls in flight
  sinceLast,         \* Date.now() - this.lastApiCall, cut at API_DELAY
  call               \* one call of a pure method: its argument and its result

vars == <<store, run, applicationToken, auth, floating, sinceLast, call>>

\* listing number idx of the store
Listing(idx) == Catalog(store[idx])

NoResp == [kind |-> "none", code |-> ""]

NoProduct == [idx |-> 0, id |-> ""]

\* no pure method is under examination
NoCall == [fn |-> "none", state |-> "none", arg |-> <<>>, ret |-> <<>>]

IdleRun ==
  [pc |-> "idle", outcome |-> "none", caught |-> FALSE,
   sleeping |-> FALSE, wake |-> 0,
   page |-> 0, allItems |-> <<>>, searchLog |-> <<>>,
   i |-> 0, k |-> 0, detailedListings |-> <<>>,
   reqs |-> 0, retries |-> 0,
   resp |-> NoResp,   \* the last detail answer, until the next enforceRateLimit
   p |-> 0, processedCount |-> 0, createdProduct |-> NoProduct,
   mediaReq |-> NoProduct, publishLog |-> <<>>, createLog |-> <<>>,
   wixLog |-> <<>>]   \* the requests processListings has sent to Wix

Init ==
  /\ store \in Stores
  /\ run = [r \in Runs |-> IdleRun]
  /\ applicationToken = 0
  /\ auth = "pending"
  /\ floating = 0
  /\ sinceLast = API_DELAY
  /\ call = NoCall

(***************************************************************************)
(* Control flow of one run: what follows each await.                       *)
(***************************************************************************)

\* the locals of the batch loop go out of scope
EndBatches(rec) ==
  [rec EXCEPT !.i = 0, !.k = 0, !.p = 0, !.detailedListings = <<>>,
              !.publishLog = <<>>, !.processedCount = 0, !.reqs = 0,
              !.retries = 0, !.resp = NoResp, !.wixLog = <<>>]

\* the end of syncEbayListingsWithWix: 'eBay-Wix sync completed'
Done(rec) == [EndBatches(rec) EXCEPT !.pc = "done", !.outcome = "returned"]

\* a catch block that logs and throws again, as that of initEbayAuth does
SyncCatchRethrows(rec) ==
  [EndBatches(rec) EXCEPT !.pc = "done", !.outcome = "threw", !.caught = TRUE]

\* catch (error) { this.logger.error('Error during eBay-Wix sync:', error) }
SyncCatch(rec) ==
  [EndBatches(rec) EXCEPT !.pc = "done", !.outcome = "returned", !.caught = TRUE]

\* slice with its end taken as the last position kept
BatchInclusive(rec) ==
  SubSeq(rec.allItems, rec.i + 1, Min(rec.i + BATCH_SIZE + 1, Len(rec.allItems)))

\* listings.slice(i, i + this.BATCH_SIZE)
Batch(rec) ==
  SubSeq(rec.allItems, rec.i + 1, Min(rec.i + BATCH_SIZE, Len(rec.allItems)))

\* the listing getDetailedListings is at
CurIdx(rec) == Batch(rec)[rec.k]

\* the call of getDetailedListings(batch)
StartBatch(rec) ==
  [rec EXCEPT !.pc = "list_rl", !.k = 1, !.detailedListings = <<>>,
              !.reqs = 0, !.retries = 0, !.p = 0, !.publishLog = <<>>,
              !.processedCount = 0, !.wixLog = <<>>]

\* getAllEbayListings has returned
Fetched(rec) ==
  IF Len(rec.allItems) > 0 THEN StartBatch([rec EXCEPT !.i = 0]) ELSE Done(rec)

\* page++ and the test page <= this.MAX_PAGES
NextPage(rec) ==
  IF rec.page + 1 <= MAX_PAGES
  THEN [rec EXCEPT !.page = @ + 1, !.pc = "page_rl"]
  ELSE Fetched([rec EXCEPT !.page = @ + 1])

\* the test for a short page left out
ShortPageNever(items) == FALSE

\* items.length < this.BATCH_SIZE
ShortPage(items) == Len(items) < BATCH_SIZE

\* a catch block that asks for the failed page again
AfterPageErrorRetries(rec) == [rec EXCEPT !.pc = "page_rl"]

\* continue, after the pause of the catch block
AfterPageError(rec) == NextPage(rec)

\* the call of processListings(detailedListings)
StartProcess(rec) ==
  LET s == [rec EXCEPT !.p = 1, !.processedCount = 0, !.publishLog = <<>>,
                       !.wixLog = <<>>]
  IN  IF rec.detailedListings = <<>>
      THEN [s EXCEPT !.pc = "batch_pause"]
      ELSE [s EXCEPT !.pc = "proc_rl"]

\* the next listing of getDetailedListings, or its return
NextListing(rec) ==
  IF rec.k + 1 <= Len(Batch(rec))
  THEN [rec EXCEPT !.k = @ + 1, !.pc = "list_rl", !.reqs = 0, !.retries = 0]
  ELSE StartProcess(rec)

\* the next listing of processListings, or its return
NextRecord(rec) ==
  LET s == [rec EXCEPT !.createdProduct = NoProduct, !.mediaReq = NoProduct]
  IN  IF rec.p + 1 <= Len(rec.detailedListings)
      THEN [s EXCEPT !.p = @ + 1, !.pc = "proc_rl"]
      ELSE [s EXCEPT !.pc = "batch_pause"]

\* { images: [] }
NoDetails == [images |-> <<>>, detail |-> FALSE]

\* { description, images: this.extractAllImages(item), details: item }
ItemDetails(item) == [images |-> extractAllImages(item), detail |-> TRUE]

\* the kinds of listing of the catalog
Kinds == {"plain", "dup", "noid", "noimg", "bad"}

\* additionalDetails of a detail response that holds the item, for each kind
\* of listing
additionalDetails == [kind \in Kinds |-> ItemDetails(Catalog(kind).item)]

\* this.extractBasicImages(listing), for each kind of listing
basicImages == [kind \in Kinds |-> extractBasicImages(Catalog(kind))]

\* uniqueImages of getDetailedListings, for each kind of listing and for
\* additionalDetails with the item (TRUE) or { images: [] } (FALSE)
uniqueImages ==
  [kind \in Kinds |->
     [detail \in BOOLEAN |->
        MergeImages(basicImages[kind],
                    IF detail THEN additionalDetails[kind].images
                    ELSE NoDetails.images)]]

\* { ...listing, ...additionalDetails, images: uniqueImages, originalListing }
NormalRecord(idx, details) ==
  [idx |-> idx,
   images |-> uniqueImages[store[idx]][details.detail],
   detail |-> details.detail]

\* { ...listing, images: this.extractBasicImages(listing), originalListing }
FallbackRecord(idx) ==
  [idx |-> idx, images |-> basicImages[store[idx]], detail |-> FALSE]

PushDetailed(rec, record) ==
  NextListing([rec EXCEPT !.detailedListings = Append(@, record)])

\* the catch block of getDetailedListings; extractBasicImages may raise in
\* it, and then getDetailedListings raises
DetailCatch(rec) ==
  IF ExtractBasicThrows(Listing(CurIdx(rec)))
  THEN SyncCatch(rec)
  ELSE PushDetailed(rec, FallbackRecord(CurIdx(rec)))

\* the error codes compared as numbers: no code matches
IsTokenErrorCodeNever(code) == FALSE

\* error.ErrorCode === '1.32' || error.ErrorCode === '1.33'
IsTokenErrorCode(code) == code \in {"1.32", "1.33"}

\* the test for images left out
HasImagesAlways(record) == TRUE

\* listing.images?.length > 0
HasImages(record) == Len(record.images) > 0

\* the outcomes of one call of getApplicationToken: a body with an
\* access_token, a body JSON.parse accepts that has none (the answer of the
\* token endpoint to a request it refuses), or an exception (no answer, or a
\* body that is no JSON)
RefreshOutcomes == {"token", "notoken", "raise"}

\* this.applicationToken = tokenResponse.access_token, unless the call or
\* JSON.parse has raised: an absent access_token is stored as undefined
TokenAfterRefresh(outcome, token) ==
  CASE outcome = "token"   -> 1
    [] outcome = "notoken" -> 0
    [] outcome = "raise"   -> token

\* one more request or refresh for the listing, counted up to MaxDetailReq
CountUp(n) == Min(n + 1, MaxDetailReq)

\* the outcomes of one detail request
DetailResponses ==
  {[kind |-> "item", code |-> ""], [kind |-> "noitem", code |-> ""],
   [kind |-> "transport", code |-> ""], [kind |-> "invalidtoken", code |-> ""],
   [kind |-> "ackfail", code |-> "1.32"], [kind |-> "ackfail", code |-> "1.33"],
   [kind |-> "ackfail", code |-> "10.12"]}

\* the listings of page number page, page size BATCH_SIZE
PageItems(page) ==
  [j \in 1..Max(0, Min(BATCH_SIZE, Len(store) - (page - 1) * BATCH_SIZE))
     |-> (page - 1) * BATCH_SIZE + j]

(***************************************************************************)
(* Actions.                                                                *)
(***************************************************************************)

Active(r) == run[r].pc \notin {"idle", "done"}

\* @Cron('* * * * *'): the scheduler calls syncEbayListingsWithWix, also
\* while an earlier call is suspended
Tick(r) ==
  /\ ~Active(r)
  /\ \A q \in Runs : q < r => Active(q)
  /\ \/ \A q \in Runs : ~Active(q)
     \/ store \in OverlapStores
  /\ run' = [run EXCEPT ![r] = NextPage(IdleRun)]
  /\ UNCHANGED <<call, store, applicationToken, auth, floating, sinceLast>>

RateLimitSites == {"page_rl", "list_rl", "shop_rl", "proc_rl"}

AfterRateLimit(pc) ==
  CASE pc = "page_rl" -> "page_go"
    [] pc = "list_rl" -> "list_go"
    [] pc = "shop_rl" -> "shop_go"
    [] pc = "proc_rl" -> "proc_go"

\* the timer is set to the time elapsed, not to what is left of API_DELAY
WaitTimeElapsed(timeSinceLastCall) == timeSinceLastCall

\* this.API_DELAY - timeSinceLastCall
WaitTime(timeSinceLastCall) == API_DELAY - timeSinceLastCall

\* enforceRateLimit up to its await: without a wait, lastApiCall is set at once
RateLimitEnter(r) ==
  /\ run[r].pc \in RateLimitSites
  /\ ~run[r].sleeping
  /\ IF sinceLast < API_DELAY
     THEN /\ run' = [run EXCEPT ![r].sleeping = TRUE,
                                ![r].wake = WaitTime(sinceLast),
                                ![r].resp = NoResp]
          /\ UNCHANGED sinceLast
     ELSE /\ run' = [run EXCEPT ![r].pc = AfterRateLimit(@), ![r].resp = NoResp]
          /\ sinceLast' = 0
  /\ UNCHANGED <<call, store, applicationToken, auth, floating>>

\* the timer of enforceRateLimit fires: this.lastApiCall = Date.now()
RateLimitWake(r) ==
  /\ run[r].sleeping
  /\ run[r].wake = 0
  /\ run' = [run EXCEPT ![r].sleeping = FALSE, ![r].pc = AfterRateLimit(@)]
  /\ sinceLast' = 0
  /\ UNCHANGED <<call, store, applicationToken, auth, floating>>

\* time passes
Advance ==
  /\ sinceLast' = Min(sinceLast + TimeStep, API_DELAY)
  /\ run' = [r \in Runs |->
               IF run[r].sleeping
               THEN [run[r] EXCEPT !.wake = Max(@ - TimeStep, 0)]
               ELSE run[r]]
  /\ UNCHANGED <<call, store, applicationToken, auth, floating>>

\* findItemsIneBayStores is called for the page
PageGo(r) ==
  /\ run[r].pc = "page_go"
  /\ run' = [run EXCEPT ![r].pc = "page_req",
                        ![r].searchLog = Append(@, [page |-> run[r].page,
                                                    res |-> "pending",
                                                    n |-> 0])]
  /\ UNCHANGED <<call, store, applicationToken, auth, floating, sinceLast>>

\* the search request returns or raises.  A page without items comes as an
\* absent result (the else branch) or as an empty list (length 0 is below
\* BATCH_SIZE): the loop is left in both cases.
SearchReturn(r) ==
  /\ run[r].pc = "page_req"
  /\ \E ok \in BOOLEAN :
       LET rec   == run[r]
           items == PageItems(rec.page)
           n     == Len(rec.searchLog)
           logged(res, got) == [rec EXCEPT !.searchLog[n].res = res,
                                           !.searchLog[n].n = got]
       IN  IF ok
           THEN LET got == [logged("ok", Len(items)) EXCEPT !.allItems = @ \o items]
                IN  run' = [run EXCEPT ![r] =
                              IF items = <<>> \/ ShortPage(items)
                              THEN Fetched(got) ELSE NextPage(got)]
           ELSE run' = [run EXCEPT ![r] =
                          [logged("fail", 0) EXCEPT !.pc = "page_pause"]]
  /\ UNCHANGED <<call, store, applicationToken, auth, floating, sinceLast>>

\* the pause after a failed page is over
PagePauseDone(r) ==
  /\ run[r].pc = "page_pause"
  /\ run' = [run EXCEPT ![r] = AfterPageError(run[r])]
  /\ UNCHANGED <<call, store, applicationToken, auth, floating, sinceLast>>

\* getDetailedListings, one listing, up to the call of getShoppingApiDetails
ListGo(r) ==
  /\ run[r].pc = "list_go"
  /\ LET rec == run[r]
         listing == Listing(CurIdx(rec))
     IN  run' = [run EXCEPT ![r] =
                   IF ~listing.itemId THEN NextListing(rec)
                   ELSE IF ExtractBasicThrows(listing) THEN DetailCatch(rec)
                   ELSE [rec EXCEPT !.pc = "shop_rl"]]
  /\ UNCHANGED <<call, store, applicationToken, auth, floating, sinceLast>>

\* getShoppingApiDetails after its enforceRateLimit: the token is looked at
ShopGo(r) ==
  /\ run[r].pc = "shop_go"
  /\ run' = [run EXCEPT ![r] =
               IF applicationToken = 0
               THEN [@ EXCEPT !.pc = "shop_refresh"]
               ELSE [@ EXCEPT !.pc = "shop_req", !.reqs = CountUp(@)]]
  /\ UNCHANGED <<call, store, applicationToken, auth, floating, sinceLast>>

\* the refresh awaited because the token was absent returns
ShopRefreshReturn(r) ==
  /\ run[r].pc = "shop_refresh"
  /\ \E outcome \in RefreshOutcomes :
       /\ applicationToken' = TokenAfterRefresh(outcome, applicationToken)
       /\ run' = [run EXCEPT ![r] =
                    IF outcome = "raise"
                    THEN PushDetailed(@, NormalRecord(CurIdx(@), NoDetails))
                    ELSE [@ EXCEPT !.pc = "shop_req", !.reqs = CountUp(@)]]
  /\ UNCHANGED <<call, store, auth, floating, sinceLast>>

\* the answer to the detail request arrives
DetailArrive(r) ==
  /\ run[r].pc = "shop_req"
  /\ \E resp \in DetailResponses :
       run' = [run EXCEPT ![r].pc = "shop_resp", ![r].resp = resp]
  /\ UNCHANGED <<call, store, applicationToken, auth, floating, sinceLast>>

\* getShoppingApiDetails from the answer on, and the merge of getDetailedListings
DetailHandle(r) ==
  /\ run[r].pc = "shop_resp"
  /\ LET rec  == run[r]
         idx  == CurIdx(rec)
         resp == rec.resp
     IN  \/ /\ resp.kind = "item"
            /\ run' = [run EXCEPT ![r] =
                 PushDetailed(rec, NormalRecord(idx, additionalDetails[store[idx]]))]
            /\ floating' = floating
         \/ /\ resp.kind \in {"noitem", "transport"}
            /\ run' = [run EXCEPT ![r] =
                 PushDetailed(rec, NormalRecord(idx, NoDetails))]
            /\ floating' = floating
         \/ /\ resp.kind = "ackfail"
            /\ ~IsTokenErrorCode(resp.code)
            /\ run' = [run EXCEPT ![r] =
                 PushDetailed(rec, NormalRecord(idx, NoDetails))]
            /\ floating' = floating
         \/ /\ resp.kind = "ackfail"
            /\ IsTokenErrorCode(resp.code)
            /\ floating < MaxFloating
            /\ run' = [run EXCEPT ![r] =
                 PushDetailed(rec, NormalRecord(idx, NoDetails))]
            /\ floating' = floating + 1
         \/ /\ resp.kind = "invalidtoken"
            /\ run' = [run EXCEPT ![r].pc = "retry_refresh",
                                  ![r].retries = CountUp(@)]
            /\ floating' = floating
  /\ UNCHANGED <<call, store, applicationToken, auth, sinceLast>>

\* the refresh awaited before the retry returns
RetryRefreshReturn(r) ==
  /\ run[r].pc = "retry_refresh"
  /\ \E outcome \in RefreshOutcomes :
       /\ applicationToken' = TokenAfterRefresh(outcome, applicationToken)
       /\ run' = [run EXCEPT ![r] =
                    IF outcome = "raise" THEN DetailCatch(@)
                    ELSE [@ EXCEPT !.pc = "shop_rl"]]
  /\ UNCHANGED <<call, store, auth, floating, sinceLast>>

\* the record processListings is at
CurRecord(rec) == rec.detailedListings[rec.p]

\* a request to the Wix API for the listing of a record: axios.post to
\* /stores/v1/products (create) or to /stores/v1/products/{id}/media (media)
WixRequest(op, record) == [op |-> op, idx |-> record.idx]

\* the outcome of the listing, as the log lines of processListings tell it
Outcome(record, create, media) ==
  [idx |-> record.idx, create |-> create, media |-> media]

\* processedCount++, at the end of the try block
Processed(rec, entry) ==
  NextRecord([rec EXCEPT !.processedCount = @ + 1,
                         !.publishLog = Append(@, entry)])

\* a catch block that deletes the product created for the listing
ProcessCatchRollsBack(rec, entry) ==
  NextRecord([rec EXCEPT
    !.publishLog = Append(@, entry),
    !.wixLog = IF entry.create = "ok"
               THEN Append(@, WixRequest("delete", CurRecord(rec))) ELSE @])

\* catch (error) { this.logger.error(`Error processing listing:`, ...) }
ProcessCatch(rec, entry) ==
  NextRecord([rec EXCEPT !.publishLog = Append(@, entry)])

\* processListings, one listing, up to the create-product request
ProcGo(r) ==
  /\ run[r].pc = "proc_go"
  /\ run' = [run EXCEPT ![r].pc = "create_req",
                        ![r].createLog = Append(@, CurRecord(run[r]).idx),
                        ![r].wixLog = Append(@, WixRequest("create", CurRecord(run[r])))]
  /\ UNCHANGED <<call, store, applicationToken, auth, floating, sinceLast>>

\* createWixProduct returns the created product, or raises
CreateReturn(r) ==
  /\ run[r].pc = "create_req"
  /\ LET rec == run[r]
         record == CurRecord(rec)
     IN  \/ \E id \in ProductIds :
              run' = [run EXCEPT ![r] =
                IF HasImages(record)
                THEN [rec EXCEPT !.pc = "media_req",
                                 !.createdProduct = [idx |-> record.idx, id |-> id],
                                 !.mediaReq = [idx |-> record.idx, id |-> id],
                                 !.wixLog = Append(@, WixRequest("media", record))]
                ELSE Processed(rec, Outcome(record, "ok", "none"))]
         \/ run' = [run EXCEPT ![r] =
                ProcessCatch(rec, Outcome(record, "fail", "none"))]
  /\ UNCHANGED <<call, store, applicationToken, auth, floating, sinceLast>>

\* addMediaToWixProduct returns, or raises
MediaReturn(r) ==
  /\ run[r].pc = "media_req"
  /\ LET rec == run[r]
         record == CurRecord(rec)
     IN  \E ok \in BOOLEAN :
           run' = [run EXCEPT ![r] =
             IF ok
             THEN Processed(rec, Outcome(record, "ok", "ok"))
             ELSE ProcessCatch(rec, Outcome(record, "ok", "fail"))]
  /\ UNCHANGED <<call, store, applicationToken, auth, floating, sinceLast>>

\* the pause after a batch is over: i += this.BATCH_SIZE
BatchPauseDone(r) ==
  /\ run[r].pc = "batch_pause"
  /\ LET rec == [run[r] EXCEPT !.i = @ + BATCH_SIZE]
     IN  run' = [run EXCEPT ![r] =
                   IF rec.i < Len(rec.allItems) THEN StartBatch(rec) ELSE Done(rec)]
  /\ UNCHANGED <<call, store, applicationToken, auth, floating, sinceLast>>

\* the refresh awaited by initEbayAuth returns; the hourly timer is set on success
StartupReturn ==
  /\ auth = "pending"
  /\ \E outcome \in RefreshOutcomes :
       /\ applicationToken' = TokenAfterRefresh(outcome, applicationToken)
       /\ auth' = IF outcome = "raise" THEN "failed" ELSE "ready"
  /\ UNCHANGED <<call, store, run, floating, sinceLast>>

\* setInterval(() => this.refreshApplicationToken(), 3600000)
TimerRefresh ==
  /\ auth = "ready"
  /\ floating < MaxFloating
  /\ floating' = floating + 1
  /\ UNCHANGED <<call, store, run, applicationToken, auth, sinceLast>>

\* an un-awaited refreshApplicationToken returns
FloatingReturn ==
  /\ floating > 0
  /\ floating' = floating - 1
  /\ \E outcome \in RefreshOutcomes :
       applicationToken' = TokenAfterRefresh(outcome, applicationToken)
  /\ UNCHANGED <<call, store, run, auth, sinceLast>>

Next ==
  \/ \E r \in Runs :
       \/ Tick(r)
       \/ RateLimitEnter(r)
       \/ RateLimitWake(r)
       \/ PageGo(r)
       \/ SearchReturn(r)
       \/ PagePauseDone(r)
       \/ ListGo(r)
       \/ ShopGo(r)
       \/ ShopRefreshReturn(r)
       \/ DetailArrive(r)
       \/ DetailHandle(r)
       \/ RetryRefreshReturn(r)
       \/ ProcGo(r)
       \/ CreateReturn(r)
       \/ MediaReturn(r)
       \/ BatchPauseDone(r)
  \/ Advance
  \/ StartupReturn
  \/ TimerRefresh
  \/ FloatingReturn

Spec == Init /\ [][Next]_vars

\* the stores of the behaviours checked for progress
FairStores == { <<>>, <<"plain">> }

FairInit == Init /\ store \in FairStores

\* a step of run r other than its start: a continuation that is ready runs,
\* and a remote call that is awaited returns
RunStep(r) ==
  \/ RateLimitEnter(r)
  \/ RateLimitWake(r)
  \/ PageGo(r)
  \/ SearchReturn(r)
  \/ PagePauseDone(r)
  \/ ListGo(r)
  \/ ShopGo(r)
  \/ ShopRefreshReturn(r)
  \/ DetailArrive(r)
  \/ DetailHandle(r)
  \/ RetryRefreshReturn(r)
  \/ ProcGo(r)
  \/ CreateReturn(r)
  \/ MediaReturn(r)
  \/ BatchPauseDone(r)

\* time passes, a refresh in flight returns, and no run waits for ever for the
\* event loop or for the outcome of a remote call.  The fairness of a run is
\* strong: the count of refreshes in flight is kept below MaxFloating, which
\* holds a run back while the count is full, and a run that is ready again
\* and again goes on.
FairSpec ==
  /\ FairInit
  /\ [][Next]_vars
  /\ WF_vars(Advance)
  /\ WF_vars(FloatingReturn)
  /\ \A r \in Runs : SF_vars(RunStep(r))

(***************************************************************************)
(* The pure methods, called on their own.  A call is drawn at the start    *)
(* and returns in one step; the service is left as it is constructed.      *)
(***************************************************************************)

\* URLs are built of at most MaxSegments of these pieces
MaxSegments == 3

Segments == {"/thumbs", "/s-l64", "-thumb", ".", "/a"}

RECURSIVE Concat(_)
Concat(pieces) == IF pieces = <<>> THEN "" ELSE Head(pieces) \o Concat(Tail(pieces))

Urls == {Concat(pieces) : pieces \in UNION {[1..n -> Segments] : n \in 0..MaxSegments}}

\* the image URLs of the listings and items given to getDetailedListings
ImageUrls == {"", "/thumbs/a.jpg", "/a-thumb.jpg", "/a.jpg", "/thumbs/thumbs/a.jpg",
              "/i/s-l64.jpg"}

\* the longest PictureURL array of an item
MaxPictures == 2

UrlLists(n) == UNION {[1..k -> ImageUrls] : k \in 0..n}

Summaries ==
  {[itemId |-> TRUE, galleryURL |-> g, pictureURL |-> p] :
     g \in ImageUrls,
     p \in {<<>>, <<"/a-thumb.jpg">>, <<"/thumbs/thumbs/a.jpg">>}}

Items ==
  {[EmptyItem EXCEPT !.PictureURL = p, !.hasPD = pd # <<>>, !.PDPictureURL = pd,
                     !.Variations = v] :
     p \in UrlLists(MaxPictures),
     pd \in {<<>>, <<"/thumbs/a.jpg">>},
     v \in {<<>>, << <<"/a-thumb.jpg">> >>}}

\* the listing of one iteration of getDetailedListings with what
\* getShoppingApiDetails does: it returns the item's details, returns
\* { images: [] }, or raises
EnrichCalls ==
  {[fn |-> "getDetailedListings", state |-> "called",
    arg |-> [listing |-> l, answer |-> "item", item |-> i], ret |-> <<>>] :
     l \in Summaries, i \in Items}
  \cup
  {[fn |-> "getDetailedListings", state |-> "called",
    arg |-> [listing |-> l, answer |-> a, item |-> EmptyItem], ret |-> <<>>] :
     l \in Summaries, a \in {"none", "raise"}}

ConvertCalls ==
  {[fn |-> "convertToHighRes", state |-> "called", arg |-> u, ret |-> ""] :
     u \in Urls}

\* the images of the record getDetailedListings pushes for a listing
EnrichedImages(listing, answer, item) ==
  CASE answer = "item"  -> MergeImages(extractBasicImages(listing), extractAllImages(item))
    [] answer = "none"  -> MergeImages(extractBasicImages(listing), <<>>)
    [] answer = "raise" -> extractBasicImages(listing)

(***************************************************************************)
(* convertToWixProduct.  An optional object is a sequence of no or one     *)
(* record, an array a sequence (absent: empty), and a string whose only    *)
(* use is a test for truthiness is '' when it is undefined.  A number is   *)
(* <<mantissa, scale>>, mantissa / 10^scale; NaN is <<0, -1>>.             *)
(***************************************************************************)

NaN == <<0, -1>>

\* x?.f for an optional object x
Get(x, f) == IF x = <<>> THEN <<>> ELSE x[1][f]

\* x?.f for an optional object x and a string field f
GetStr(x, f) == IF x = <<>> THEN "" ELSE x[1][f]

\* a || b on strings
OrStr(a, b) == IF a = "" THEN b ELSE a

\* the value of a character that is a digit
DigitOf(c) == CHOOSE d \in 0..9 : SubSeq("0123456789", d + 1, d + 1) = c

\* the value of a run of digits
DigitsValue(digits) ==
  LET v[n \in 0..Len(digits)] ==
        IF n = 0 THEN 0 ELSE 10 * v[n - 1] + DigitOf(SubSeq(digits, n, n))
  IN  v[Len(digits)]

\* the position after the leading blanks of s
SkipBlanks(s) ==
  CHOOSE k \in 1..(Len(s) + 1) :
    /\ \A j \in 1..(k - 1) : SubSeq(s, j, j) = " "
    /\ (k = Len(s) + 1 \/ SubSeq(s, k, k) # " ")

\* the sign at position k of s: its factor and its length
SignAt(s, k) ==
  IF StartsAt(s, "-", k) THEN <<-1, 1>>
  ELSE IF StartsAt(s, "+", k) THEN <<1, 1>>
  ELSE <<1, 0>>

\* parseInt(s, 10): blanks, a sign, then the longest run of digits; NaN when
\* there is no digit there
ParseInt(s) ==
  LET sign == SignAt(s, SkipBlanks(s))
      k    == SkipBlanks(s) + sign[2]
      n    == DigitRun(s, k)
  IN  IF n = 0 THEN NaN
      ELSE <<sign[1] * DigitsValue(SubSeq(s, k, k + n - 1)), 0>>

RECURSIVE Normal(_)
\* a number without final zeros after the point
Normal(num) ==
  IF num[2] > 0 /\ num[1] % 10 = 0
  THEN Normal(<<num[1] \div 10, num[2] - 1>>) ELSE num

\* parseFloat(s) for a decimal literal without exponent: blanks, a sign,
\* digits, and a point with digits; NaN when there is no digit
ParseFloat(s) ==
  LET sign == SignAt(s, SkipBlanks(s))
      k    == SkipBlanks(s) + sign[2]
      ip   == DigitRun(s, k)
      fp   == IF StartsAt(s, ".", k + ip) THEN DigitRun(s, k + ip + 1) ELSE 0
      digs == SubSeq(s, k, k + ip - 1) \o SubSeq(s, k + ip + 1, k + ip + fp)
  IN  IF ip + fp = 0 THEN NaN
      ELSE Normal(<<sign[1] * DigitsValue(digs), fp>>)

\* String.prototype.slice(from, to) for 0 <= from <= to, with the end taken
\* as the last position kept
SliceInclusive(str, from, to) == SubSeq(str, from + 1, Min(to + 1, Len(str)))

\* String.prototype.slice(from, to) for 0 <= from <= to
Slice(str, from, to) == SubSeq(str, from + 1, Min(to, Len(str)))

\* String.prototype.trim() for blanks
Trim(str) ==
  LET keep == {j \in 1..Len(str) : SubSeq(str, j, j) # " "}
      lo   == CHOOSE j \in keep : \A m \in keep : j <= m
      hi   == CHOOSE j \in keep : \A m \in keep : j >= m
  IN  IF keep = {} THEN "" ELSE SubSeq(str, lo, hi)

\* Array.prototype.join(sep) on strings
Join(strs, sep) ==
  LET j[n \in 0..Len(strs)] ==
        IF n = 0 THEN ""
        ELSE IF n = 1 THEN strs[1]
        ELSE j[n - 1] \o sep \o strs[n]
  IN  j[Len(strs)]

\* the length above which a description is cut
DescriptionLimit == 8000

\* the length to which createMetaDescription cuts
MetaLimit == 160

\* listing.details?.ItemSpecifics?.[0]?.NameValueList
NameValueList(listing) ==
  LET specifics == Get(listing.details, "ItemSpecifics")
  IN  IF specifics = <<>> THEN <<>> ELSE specifics[1].NameValueList

\* formatItemSpecifics: an array in a template is its entries joined by ','
formatItemSpecifics(nameValueList) ==
  Join([n \in 1..Len(nameValueList) |->
          "**" \o Join(nameValueList[n].Name, ",") \o ":** "
               \o Join(nameValueList[n].Value, ", ")],
       "\n\n")

\* formatReturnPolicy, given the array ReturnPolicy of which the caller
\* passes the first entry
formatReturnPolicy(returnPolicy) ==
  IF returnPolicy = <<>> THEN ""
  ELSE LET rp == returnPolicy[1]
           line(label, value) == IF value = "" THEN <<>> ELSE <<label \o value>>
       IN  Join(line("Returns: ", rp.ReturnsAccepted)
                  \o line("Return Window: ", rp.ReturnsWithin)
                  \o line("Return Shipping: Paid by ", rp.ShippingCostPaidBy)
                  \o line("Refund Type: ", rp.Refund),
                "\n")

\* the Value?.[0] of the first entry whose Name?.[0] is 'Brand', or ''
extractBrand(listing) ==
  LET list == NameValueList(listing)
      hits == {n \in 1..Len(list) : First(list[n].Name) = "Brand"}
      n    == CHOOSE h \in hits : \A m \in hits : h <= m
  IN  IF hits = {} THEN "" ELSE First(list[n].Value)

createMetaDescription(listing) ==
  Slice(Trim(GetStr(listing.condition, "conditionDisplayName") \o " "
               \o extractBrand(listing) \o " "
               \o OrStr(First(listing.title), "")),
        0, MetaLimit)

\* the price with no default for an absent value
PriceNoDefault(listing) ==
  ParseFloat(OrStr(GetStr(Get(listing.sellingStatus, "currentPrice"), "value"),
                   GetStr(Get(listing.sellingStatus, "convertedCurrentPrice"), "value")))

\* parseFloat(currentPrice?.value || convertedCurrentPrice?.value || '0')
Price(listing) ==
  ParseFloat(OrStr(GetStr(Get(listing.sellingStatus, "currentPrice"), "value"),
                   OrStr(GetStr(Get(listing.sellingStatus, "convertedCurrentPrice"),
                                "value"),
                         "0")))

\* parseInt(listing.details?.Quantity?.[0] || '1', 10)
Quantity(listing) == ParseInt(OrStr(First(Get(listing.details, "Quantity")), "1"))

\* description, cut when it is longer than the limit; undefined stays
Description(listing) ==
  IF listing.description # <<>> /\ Len(listing.description[1]) > DescriptionLimit
  THEN <<Slice(listing.description[1], 0, DescriptionLimit)>>
  ELSE listing.description

\* the product without its sku, which is drawn at random
convertToWixProduct(listing) ==
  [name            |-> listing.title,
   productType     |-> "physical",
   currency        |-> OrStr(GetStr(Get(listing.sellingStatus, "currentPrice"),
                                    "currencyId"), "USD"),
   price           |-> Price(listing),
   description     |-> Description(listing),
   ribbon          |-> OrStr(GetStr(listing.condition, "conditionDisplayName"), ""),
   status          |-> "IN_STOCK",
   quantity        |-> Quantity(listing),
   productDetails  |-> formatItemSpecifics(NameValueList(listing)),
   returnPolicy    |-> formatReturnPolicy(Get(listing.details, "ReturnPolicy")),
   brand           |-> OrStr(extractBrand(listing), "Unbranded"),
   seoTitle        |-> OrStr(First(listing.title), ""),
   metaDescription |-> createMetaDescription(listing)]

RECURSIVE Repeat(_, _)
\* str repeated n times
Repeat(str, n) ==
  IF n = 0 THEN ""
  ELSE IF n % 2 = 0 THEN LET half == Repeat(str, n \div 2) IN half \o half
  ELSE str \o Repeat(str, n - 1)

\* a text of n characters
Text(n) == SubSeq(Repeat("abcdefghij", n \div 10 + 1), 1, n)

Titles == {<<>>, <<"Lamp">>}

SellingStatuses ==
  {<<>>,
   <<[currentPrice |-> <<>>, convertedCurrentPrice |-> <<>>]>>,
   <<[currentPrice |-> <<[value |-> "12.50", currencyId |-> "EUR"]>>,
      convertedCurrentPrice |-> <<>>]>>,
   <<[currentPrice |-> <<[value |-> "", currencyId |-> ""]>>,
      convertedCurrentPrice |-> <<[value |-> "7"]>>]>>}

Descriptions ==
  {<<>>} \cup {<<Text(n)>> : n \in {0, 5, DescriptionLimit - 1, DescriptionLimit,
                                    DescriptionLimit + 1, DescriptionLimit + 10}}

Conditions == {<<>>, <<[conditionDisplayName |-> "New"]>>}

Quantities == {<<>>, <<"5">>, <<"0">>, <<"abc">>, <<"">>, <<"12 pcs">>, <<"3.7">>,
               <<"-2">>, <<" 4">>}

Specifics ==
  {<<>>,
   <<[NameValueList |-> <<>>]>>,
   <<[NameValueList |-> <<[Name |-> <<"Color">>, Value |-> <<"Red", "Blue">>],
                          [Name |-> <<"Brand">>, Value |-> <<"Acme">>]>>]>>,
   <<[NameValueList |-> <<[Name |-> <<"Brand">>, Value |-> <<>>]>>]>>}

ReturnPolicies ==
  {<<>>,
   <<[ReturnsAccepted |-> "Returns Accepted", ReturnsWithin |-> "30 Days",
      ShippingCostPaidBy |-> "", Refund |-> ""]>>}

Details ==
  {<<>>} \cup
  {<<[Quantity |-> q, ItemSpecifics |-> sp, ReturnPolicy |-> rp]>> :
     q \in Quantities, sp \in Specifics, rp \in ReturnPolicies}

\* the enriched listings given to convertToWixProduct
MapperCalls ==
  {[fn |-> "convertToWixProduct", state |-> "called",
    arg |-> [title |-> t, sellingStatus |-> ss, description |-> d,
             condition |-> c, details |-> dt],
    ret |-> <<>>] :
     t \in Titles, ss \in SellingStatuses, d \in Descriptions, c \in Conditions,
     dt \in Details}

ConvertReturn ==
  /\ call.fn = "convertToHighRes"
  /\ call.state = "called"
  /\ call' = [call EXCEPT !.state = "returned", !.ret = convertToHighRes(call.arg)]
  /\ UNCHANGED <<store, run, applicationToken, auth, floating, sinceLast>>

EnrichReturn ==
  /\ call.fn = "getDetailedListings"
  /\ call.state = "called"
  /\ call' = [call EXCEPT !.state = "returned",
                          !.ret = EnrichedImages(call.arg.listing, call.arg.answer,
                                                 call.arg.item)]
  /\ UNCHANGED <<store, run, applicationToken, auth, floating, sinceLast>>

MapperReturn ==
  /\ call.fn = "convertToWixProduct"
  /\ call.state = "called"
  /\ call' = [call EXCEPT !.state = "returned", !.ret = convertToWixProduct(call.arg)]
  /\ UNCHANGED <<store, run, applicationToken, auth, floating, sinceLast>>

FnInit ==
  /\ store = <<>>
  /\ run = [r \in Runs |-> IdleRun]
  /\ applicationToken = 0
  /\ auth = "pending"
  /\ floating = 0
  /\ sinceLast = API_DELAY
  /\ \/ call \in ConvertCalls
     \/ call \in EnrichCalls
     \/ call \in MapperCalls

FnNext ==
  \/ ConvertReturn
  \/ EnrichReturn
  \/ MapperReturn

FunctionSpec == FnInit /\ [][FnNext]_vars

(***************************************************************************)
(* Properties.                                                             *)
(***************************************************************************)

\* getDetailedListings has returned and its result is being published
Publishing(r) ==
  run[r].pc \in {"proc_rl", "proc_go", "create_req", "media_req", "batch_pause"}

\* C1: the number of records getDetailedListings returns is the number of
\* listings of the batch it was given.
C1_CountPreserved ==
  \A r \in Runs :
    Publishing(r) => Len(run[r].detailedListings) = Len(Batch(run[r]))

\* C2: for one listing, at most two detail requests are sent and at most one
\* refresh is made on an invalid-token answer.
C2_RetryOnce ==
  \A r \in Runs : run[r].reqs <= 2 /\ run[r].retries <= 1

NoDuplicates(urls) ==
  \A a, b \in 1..Len(urls) : a # b => urls[a] # urls[b]

\* C3: the images of every record of getDetailedListings hold no URL twice
\* and no null, undefined or empty entry.
C3_ImagesUniqueNonEmpty ==
  \A r \in Runs :
    \A j \in 1..Len(run[r].detailedListings) :
      LET images == run[r].detailedListings[j].images
      IN  /\ NoDuplicates(images)
          /\ \A a \in 1..Len(images) : ~Falsy(images[a])

\* C4: when a run ends, every listing the fetcher returned has had exactly one
\* create-product attempt, in fetch order.
C4_EveryListingAttempted ==
  \A r \in Runs :
    run[r].pc = "done" => run[r].createLog = run[r].allItems

\* C5: a run never ends by raising to its caller, whatever fails; it ends by
\* returning, and a run starts from the same state whatever the run before did.
C5_NeverPropagates ==
  \A r \in Runs :
    /\ run[r].outcome # "threw"
    /\ run[r].pc = "done" => run[r].outcome = "returned"
    /\ (run[r].pc = "page_rl" /\ run[r].page = 1 /\ ~run[r].sleeping)
         => run[r] = NextPage(IdleRun)

\* a run in which an exception reached the catch block of
\* syncEbayListingsWithWix has ended by returning
C5_Witness ==
  \E r \in Runs :
    run[r].pc = "done" /\ run[r].caught /\ run[r].outcome = "returned"

\* getAllEbayListings is running
Fetching(r) == run[r].pc \in {"page_rl", "page_go", "page_req", "page_pause"}

\* C6: the search requests of a run are for pages 1, 2, ... in this order, at
\* most MAX_PAGES of them, none after a page that returned fewer items than
\* the page size or none; the list is empty when the store has no listings.
C6_Paging ==
  \A r \in Runs :
    LET log == run[r].searchLog
    IN  /\ \A j \in 1..Len(log) : log[j].page = j
        /\ Len(log) <= MAX_PAGES
        /\ \A j \in 1..(Len(log) - 1) :
             ~(log[j].res = "ok" /\ log[j].n < BATCH_SIZE)
        /\ (store = <<>> /\ ~Fetching(r)) => run[r].allItems = <<>>

\* the fetcher has stopped below the page cap after a full page and a short one
C6_Witness ==
  \E r \in Runs :
    LET log == run[r].searchLog
    IN  /\ ~Fetching(r)
        /\ Len(log) = 2
        /\ Len(log) < MAX_PAGES
        /\ log[1].res = "ok" /\ log[1].n = BATCH_SIZE
        /\ log[2].res = "ok" /\ log[2].n < BATCH_SIZE /\ log[2].n > 0

RECURSIVE OkItems(_)
\* the items of the pages of the log whose request succeeded, in page order
OkItems(log) ==
  IF log = <<>> THEN <<>>
  ELSE LET last == log[Len(log)]
       IN  OkItems(SubSeq(log, 1, Len(log) - 1))
             \o (IF last.res = "ok" THEN PageItems(last.page) ELSE <<>>)

\* C7: a page whose request failed is not requested again, the next page is
\* requested unless the failed page was the last one allowed, and the list
\* collected is that of the pages whose request succeeded, in page order.
C7_PageFailure ==
  \A r \in Runs :
    LET log == run[r].searchLog
    IN  /\ \A j, k \in 1..Len(log) : j # k => log[j].page # log[k].page
        /\ \A j \in 1..(Len(log) - 1) :
             log[j].res = "fail" => log[j + 1].page = log[j].page + 1
        /\ (~Fetching(r) /\ log # <<>> /\ log[Len(log)].res = "fail")
             => log[Len(log)].page = MAX_PAGES
        /\ run[r].allItems = OkItems(log)

\* a page failed between two pages that returned items
C7_Witness ==
  \E r \in Runs :
    LET log == run[r].searchLog
    IN  /\ Len(log) = 3
        /\ log[1].res = "ok" /\ log[1].n > 0
        /\ log[2].res = "fail"
        /\ log[3].res = "ok" /\ log[3].n > 0
        /\ run[r].allItems = PageItems(1) \o PageItems(3)

\* C8: an attach-media request is in flight only for the listing whose
\* create-product request has just succeeded, targets the product that create
\* returned, and is sent exactly when the listing's images are not empty.
C8_MediaAfterCreate ==
  \A r \in Runs :
    LET rec == run[r]
    IN  /\ rec.pc = "media_req" =>
             /\ rec.createdProduct.idx = CurRecord(rec).idx
             /\ rec.createdProduct.id \in ProductIds
             /\ rec.mediaReq = rec.createdProduct
             /\ Len(CurRecord(rec).images) > 0
        /\ rec.pc # "media_req" => rec.mediaReq = NoProduct
        /\ \A j \in 1..Len(rec.publishLog) :
             /\ rec.publishLog[j].idx = rec.detailedListings[j].idx
             /\ rec.publishLog[j].media # "none"
                  <=> (/\ rec.publishLog[j].create = "ok"
                       /\ Len(rec.detailedListings[j].images) > 0)

\* a batch with a created listing without images, and an attach-media request
\* in flight for another
C8_Witness ==
  \E r \in Runs :
    /\ run[r].pc = "media_req"
    /\ \E j \in 1..Len(run[r].publishLog) :
         /\ run[r].publishLog[j].create = "ok"
         /\ run[r].publishLog[j].media = "none"

\* run r handles the answer of the detail API in this step
Handles(r) == run[r].pc = "shop_resp" /\ run'[r] # run[r]

Releases(r) ==
  /\ run[r].pc \in {"page_rl", "shop_rl"}
  /\ run'[r].pc = AfterRateLimit(run[r].pc)

\* C10: no request to the search or the detail API is released by
\* enforceRateLimit less than API_DELAY after the release before it.
C10_MinInterval ==
  [][\A r \in Runs : Releases(r) => sinceLast >= API_DELAY]_vars

\* run r comes to pc in this step
Enters(r, pc) == run[r].pc # pc /\ run'[r].pc = pc

\* enforceRateLimit records a new value of lastApiCall for run r
Records(r) ==
  /\ run[r].pc \in RateLimitSites
  /\ run'[r].pc = AfterRateLimit(run[r].pc)

\* C16: while no second run has been started, a search request and a detail
\* request, a retried one too, are sent only after an enforceRateLimit of
\* their own has returned, and lastApiCall is set only when API_DELAY has
\* passed since it was set last.
C16_SequentialRateLimit ==
  [][(run[2].pc = "idle" /\ run'[2].pc = "idle")
       => /\ Enters(1, "page_req") => run[1].pc = "page_go"
          /\ Enters(1, "page_go") => (run[1].pc = "page_rl" /\ Records(1))
          /\ Enters(1, "shop_req") => run[1].pc \in {"shop_go", "shop_refresh"}
          /\ Enters(1, "shop_refresh") => run[1].pc = "shop_go"
          /\ Enters(1, "shop_go") => (run[1].pc = "shop_rl" /\ Records(1))
          /\ Records(1) => (sinceLast >= API_DELAY /\ sinceLast' = 0)]_vars

\* the only run has been let go by the enforceRateLimit of a retried detail
\* request, which has set lastApiCall
C16_Witness ==
  /\ run[2].pc = "idle"
  /\ run[1].pc = "shop_go"
  /\ run[1].retries = 1
  /\ run[1].reqs = 1
  /\ run[1].wake = 0
  /\ sinceLast = 0

\* C17: no detail request is sent while the application token is absent: with
\* the token absent a refresh is awaited first, and when that refresh fails no
\* detail request is sent for the listing and its record has the basic images
\* only.
C17_NoRequestWithoutToken ==
  [][\A r \in Runs :
       /\ Enters(r, "shop_req") => applicationToken' # 0
       /\ (run[r].pc = "shop_go" /\ run'[r] # run[r] /\ applicationToken = 0)
            => run'[r].pc = "shop_refresh"
       /\ (run[r].pc = "shop_refresh" /\ run'[r] # run[r] /\ run'[r].pc # "shop_req")
            => LET recs == run'[r].detailedListings
               IN  /\ run'[r].reqs = run[r].reqs
                   /\ Len(recs) = Len(run[r].detailedListings) + 1
                   /\ ~recs[Len(recs)].detail
                   /\ recs[Len(recs)].images
                        = MapHighRes(extractBasicImages(Listing(CurIdx(run[r]))))]_vars

\* getDetailedListings is running
Enriching(r) ==
  run[r].pc \in {"list_rl", "list_go", "shop_rl", "shop_go", "shop_refresh",
                 "shop_req", "shop_resp", "retry_refresh"}

\* the listings of idxs that have an itemId, for which getDetailedListings
\* returns a record
WithId(idxs) == SelectSeq(idxs, LAMBDA idx : Listing(idx).itemId)

\* the listings of the records
Idxs(records) == [n \in 1..Len(records) |-> records[n].idx]

\* C18: the stages of a run go forward.  No listing is enriched or published
\* while getAllEbayListings is running; the batch in work is the next at most
\* BATCH_SIZE listings of the fetched list, in order; and while a batch is
\* enriched, the create attempts made are those of the records of all the
\* batches before it, in order, and no publish request is in flight.
C18_StagesForward ==
  \A r \in Runs :
    LET rec   == run[r]
        first == rec.i + 1
        last  == Min(rec.i + BATCH_SIZE, Len(rec.allItems))
        chunk == SubSeq(rec.allItems, first, last)
        before == WithId(SubSeq(rec.allItems, 1, rec.i))
    IN  /\ Fetching(r)
             => /\ rec.i = 0 /\ rec.k = 0 /\ rec.p = 0 /\ rec.reqs = 0
                /\ rec.detailedListings = <<>>
                /\ rec.createLog = <<>>
        /\ (Enriching(r) \/ Publishing(r))
             => /\ \A j \in 1..Len(rec.searchLog) : rec.searchLog[j].res # "pending"
                /\ rec.allItems = OkItems(rec.searchLog)
                /\ rec.i % BATCH_SIZE = 0
                /\ first <= last
                /\ last - first + 1 <= BATCH_SIZE
        /\ Enriching(r)
             => /\ rec.k \in 1..Len(chunk)
                /\ Idxs(rec.detailedListings) = WithId(SubSeq(chunk, 1, rec.k - 1))
                /\ rec.createLog = before
                /\ rec.publishLog = <<>>
                /\ rec.createdProduct = NoProduct
                /\ rec.mediaReq = NoProduct
        /\ Publishing(r)
             => /\ Idxs(rec.detailedListings) = WithId(chunk)
                /\ \E n \in 0..Len(rec.detailedListings) :
                     rec.createLog = before \o SubSeq(Idxs(rec.detailedListings), 1, n)

\* the third batch of a run is being enriched after a create attempt in an
\* earlier batch
C18_Witness ==
  \E r \in Runs :
    /\ Enriching(r)
    /\ run[r].i = 2 * BATCH_SIZE
    /\ run[r].createLog # <<>>

\* C19: with every remote call returning after finite time, a run of
\* syncEbayListingsWithWix that has started completes, whatever the remote
\* APIs answer.
C19_RunsComplete ==
  \A r \in Runs : Active(r) ~> (run[r].pc = "done")

\* C20: under any interleaving of the refreshes (startup, timer, on demand,
\* un-awaited), the application token, once a refresh has set it, is never
\* absent again: no refresh, however it ends, takes the token away.
C20_TokenNeverLost ==
  [][applicationToken # 0 => applicationToken' # 0]_vars

\* the listing of entry j of the log of run r went through: its product was
\* created and its images, if it has any, were attached
WentThrough(r, j) ==
  /\ run[r].publishLog[j].create = "ok"
  /\ \/ Len(run[r].detailedListings[j].images) = 0
     \/ run[r].publishLog[j].media = "ok"

RECURSIVE RequestsOf(_)
\* the requests that the outcomes of a log account for: one create-product
\* for each listing, followed by one attach-media where one was answered
RequestsOf(log) ==
  IF log = <<>> THEN <<>>
  ELSE LET entry == log[Len(log)]
       IN  RequestsOf(SubSeq(log, 1, Len(log) - 1))
             \o <<[op |-> "create", idx |-> entry.idx]>>
             \o (IF entry.media = "none" THEN <<>>
                 ELSE <<[op |-> "media", idx |-> entry.idx]>>)

\* C21: the processed count of processListings is the number of listings of
\* the batch whose create-product succeeded and whose attach-media, when
\* required, also succeeded; a listing whose attach-media failed is not
\* counted; and the requests sent to Wix are the create-product and
\* attach-media requests of the listings alone: none deletes or undoes a
\* created product.
C21_CountAndNoRollback ==
  \A r \in Runs :
    LET rec == run[r]
    IN  /\ rec.processedCount
             = Cardinality({j \in 1..Len(rec.publishLog) : WentThrough(r, j)})
        /\ \A j \in 1..Len(rec.publishLog) :
             rec.publishLog[j].media = "fail" => ~WentThrough(r, j)
        /\ \A k \in 1..Len(rec.wixLog) : rec.wixLog[k].op \in {"create", "media"}
        /\ rec.pc = "batch_pause" => rec.wixLog = RequestsOf(rec.publishLog)

\* processListings is over for a batch of two listings: one was counted, and
\* the attach-media of the other failed after its product had been created
C21_Witness ==
  \E r \in Runs :
    /\ run[r].pc = "batch_pause"
    /\ Len(run[r].publishLog) = 2
    /\ run[r].processedCount = 1
    /\ \E j \in 1..2 : /\ run[r].publishLog[j].create = "ok"
                        /\ run[r].publishLog[j].media = "fail"

(***************************************************************************)
(* Properties of the pure methods, under FunctionSpec.                     *)
(***************************************************************************)

Returned(fn) == call.fn = fn /\ call.state = "returned"

\* the URLs getDetailedListings collects for a listing as they come from eBay,
\* in the order the code visits them, the falsy ones left out
RawUrls(arg) ==
  LET l == arg.listing
      i == arg.item
      flat[n \in 0..Len(i.Variations)] ==
        IF n = 0 THEN <<>> ELSE flat[n - 1] \o i.Variations[n]
      detail == i.PictureURL \o i.GalleryURL
                  \o (IF i.hasPD /\ i.hasPDGallery THEN i.PDGalleryURL ELSE <<>>)
                  \o (IF i.hasPD THEN i.PDPictureURL ELSE <<>>)
                  \o flat[Len(i.Variations)]
  IN  SelectSeq(<<l.galleryURL>> \o l.pictureURL
                  \o (IF arg.answer = "item" THEN detail ELSE <<>>),
                LAMBDA u : u # "")

\* urls without the repetitions of an earlier entry
FirstOccurrences(urls) ==
  LET keep[n \in 0..Len(urls)] ==
        IF n = 0 THEN <<>>
        ELSE IF \E j \in 1..(n - 1) : urls[j] = urls[n] THEN keep[n - 1]
        ELSE Append(keep[n - 1], urls[n])
  IN  keep[Len(urls)]

\* C11 as stated: deduplication is on the raw URLs, so every distinct raw URL
\* of a listing has its own entry in the final image list, also when two of
\* them have the same upgraded form.
C11_DedupOnRaw ==
  Returned("getDetailedListings")
    => Len(call.ret) = Cardinality(Range(RawUrls(call.arg)))

\* C11 as amended: deduplication is on the URLs upgraded once; the final image
\* list has one entry for each distinct once-upgraded URL, in the order of
\* first occurrence, upgraded once more when getShoppingApiDetails returned.
C11_DedupOnUpgraded ==
  Returned("getDetailedListings")
    => LET once == FirstOccurrences(
                     [n \in 1..Len(RawUrls(call.arg)) |->
                        convertToHighRes(RawUrls(call.arg)[n])])
       IN  /\ Len(call.ret) = Len(once)
           /\ call.ret = IF call.arg.answer = "raise" THEN once
                         ELSE [n \in 1..Len(once) |-> convertToHighRes(once[n])]

\* a listing whose summary and detail answer hold two different raw URLs with
\* the same upgraded form, and one image for them in the record
C11_Witness ==
  /\ Returned("getDetailedListings")
  /\ call.arg.answer = "item"
  /\ call.arg.listing.galleryURL = "/thumbs/a.jpg"
  /\ call.arg.listing.pictureURL = <<>>
  /\ call.arg.item.PictureURL = <<"/a-thumb.jpg">>
  /\ call.ret = <<"/a.jpg">>

\* /thumbs/, /s-l<digits>. or -thumb. occurs in url
HasPattern(url) ==
  \/ IndexOf(url, "/thumbs/") # 0
  \/ \E i \in 1..Len(url) : SizeMatchAt(url, i)
  \/ IndexOf(url, "-thumb.") # 0

\* C12: convertToHighRes applied to its own result returns it unchanged; it
\* returns the empty string for the empty string and a URL with none of the
\* three patterns unchanged.
C12_Idempotent ==
  Returned("convertToHighRes")
    => /\ convertToHighRes(call.ret) = call.ret
       /\ call.arg = "" => call.ret = ""
       /\ ~HasPattern(call.arg) => call.ret = call.arg

\* every optional nested field of the listing is absent, at whatever depth
\* the nesting ends
Bare(listing) ==
  /\ listing.title = <<>>
  /\ listing.description = <<>>
  /\ listing.condition = <<>>
  /\ \/ listing.sellingStatus = <<>>
     \/ /\ listing.sellingStatus[1].currentPrice = <<>>
        /\ listing.sellingStatus[1].convertedCurrentPrice = <<>>
  /\ \/ listing.details = <<>>
     \/ /\ listing.details[1].Quantity = <<>>
        /\ listing.details[1].ReturnPolicy = <<>>
        /\ \/ listing.details[1].ItemSpecifics = <<>>
           \/ listing.details[1].ItemSpecifics[1].NameValueList = <<>>

\* C13: for a listing with every optional nested field absent,
\* convertToWixProduct returns a product with price 0, currency 'USD',
\* inventory quantity 1, inventory status 'IN_STOCK' and brand 'Unbranded'.
C13_Defaults ==
  (call.fn = "convertToWixProduct" /\ Bare(call.arg))
    => /\ call.state \in {"called", "returned"}
       /\ call.state = "returned"
            => /\ call.ret.price = <<0, 0>>
               /\ call.ret.currency = "USD"
               /\ call.ret.quantity = <<1, 0>>
               /\ call.ret.status = "IN_STOCK"
               /\ call.ret.brand = "Unbranded"

\* convertToWixProduct has returned for a listing with a details object that
\* holds an empty ItemSpecifics entry and nothing else
C13_Witness ==
  /\ Returned("convertToWixProduct")
  /\ Bare(call.arg)
  /\ call.arg.sellingStatus # <<>>
  /\ call.arg.details # <<>>
  /\ call.arg.details[1].ItemSpecifics # <<>>
  /\ call.ret.price = <<0, 0>>

\* C14: the inventory quantity is the integer parsed from the detail quantity
\* field when the field is present and parsable, and 1 when the field is absent
\* or not parsable as an integer; the inventory status is always 'IN_STOCK'.
C14_QuantityDefault ==
  Returned("convertToWixProduct")
    => LET field == Get(call.arg.details, "Quantity")
       IN  /\ call.ret.status = "IN_STOCK"
           /\ call.ret.quantity # NaN
           /\ call.ret.quantity =
                IF field # <<>> /\ ParseInt(field[1]) # NaN
                THEN ParseInt(field[1]) ELSE <<1, 0>>

====
